---- MODULE Spec2Model ----
(***************************************************************************)
(* Fusiondepth_detection.py: the RealsenseCamera class (start with a       *)
(* warm-up, get_aligned_frames, stop) and main(): load the model, start    *)
(* the camera, then per cycle acquire an aligned frame pair, run the       *)
(* detector, sample the depth at every box centre, draw, show, poll the    *)
(* keyboard; the finally block stops the camera.                           *)
(*                                                                         *)
(* Two specifications:                                                     *)
(*   Spec     one run of main().                                           *)
(*   SpecApi  a client that calls the methods of one RealsenseCamera in    *)
(*            any order (what the class itself guarantees).                *)
(***************************************************************************)
EXTENDS Integers, Sequences, FiniteSets, TLC

\* ------------------------------------------------------------------ bounds
\* Frame size of the model (the program streams 640x480; pixels are 0..W-1).
IMG_WIDTH == 2
IMG_HEIGHT == 1
\* Most boxes the detector returns for one image.
MaxBoxes == 2
\* The count of consecutive skipped cycles saturates here.
MaxMisses == 2
\* Most method calls of the client in SpecApi.
MaxApiCalls == 4
\* Most images saved in one run of the data collection.
MaxImages == 2

\* --------------------------------------------------------------- constants
\* for _ in range(30): self.pipeline.wait_for_frames()
WarmUpFrames == 30

None == "None"

\* Depth samples get_distance can return, in millimetres (depth unit 0.001 m):
\* 0 is "no data", 4 mm is below half a centimetre, 1250 mm is 1.25 m.
DepthSamples == {0, 4, 1250}

Pixels == (0..(IMG_WIDTH - 1)) \X (0..(IMG_HEIGHT - 1))

\* Boxes of the detector: 0 <= x1 < x2 <= width, 0 <= y1 < y2 <= height.
Boxes ==
  {b \in [x1 : 0..IMG_WIDTH, y1 : 0..IMG_HEIGHT, x2 : 0..IMG_WIDTH, y2 : 0..IMG_HEIGHT] :
     b.x1 < b.x2 /\ b.y1 < b.y2}

BoxSeqs == UNION {[1..n -> Boxes] : n \in 0..MaxBoxes}

Keys == {"q", "s"}

VARIABLES
  pc,           \* position in main() (or in the client of SpecApi)
  pipe,         \* rs.pipeline: "idle", "streaming" or "stopped"
  opens,        \* successful pipeline.start calls
  stops,        \* pipeline.stop calls
  releases,     \* pipeline.stop calls that released the device
  warm,         \* warm-up frames retrieved by the current start()
  startResult,  \* what start() returned: None, "True" or "False"
  acq,          \* outcome of the last wait_for_frames/align in get_aligned_frames
  color_image,  \* None or "img"
  depth_frame,  \* None or "frame"
  depth,        \* the samples of depth_frame read so far: pixel -> millimetres
  results,      \* results[0].boxes of this cycle
  i,            \* index of the box the for loop is at
  drawn,        \* annotations drawn on color_image in this cycle
  shown,        \* what imshow displayed in this cycle: <<>> or <<[dets, anns]>>
  pending,      \* key waiting in the window's event queue (None if none)
  saved,        \* a snapshot of this cycle's image has been written
  exc,          \* exception propagating out of main / raised to the client
  misses,       \* consecutive cycles skipped so far (saturating)
  calls,        \* method calls made by the client of SpecApi
  pipeline,     \* 1_data_collection.py: the local pipeline, None or "pipeline"
  window,       \* 1_data_collection.py: the window is visible
  img_counter   \* 1_data_collection.py: images saved so far

vars == <<pc, pipe, opens, stops, releases, warm, startResult, acq, color_image,
          depth_frame, depth, results, i, drawn, shown, pending, saved, exc,
          misses, calls, pipeline, window, img_counter>>

dcVars == <<pipeline, window, img_counter>>
camVars == <<pipe, opens, stops, releases, warm, startResult>>
cycleVars == <<acq, color_image, depth_frame, depth, results, i, drawn, shown, misses>>

\* ------------------------------------------------------- RealsenseCamera
\* self.pipeline.start(self.config): raises when the pipeline is already
\* streaming or when the device cannot be opened (ok = FALSE).
PipelineStart(p, ok) ==
  IF p # "streaming" /\ ok
    THEN [pipe |-> "streaming", raised |-> FALSE]
    ELSE [pipe |-> p, raised |-> TRUE]

\* self.pipeline.stop(): releases a streaming pipeline; librealsense raises
\* ("stop() cannot be called before start()") on one that is not streaming.
PipelineStop(p) ==
  IF p = "streaming"
    THEN [pipe |-> "stopped", released |-> TRUE, raised |-> FALSE]
    ELSE [pipe |-> p, released |-> FALSE, raised |-> TRUE]

\* What wait_for_frames(5000), align.process and the two get_*_frame calls can
\* do in one get_aligned_frames: deliver both frames, time out, fail to align,
\* or deliver a frameset that lacks the depth or the color frame.
AcqOutcomes(p) ==
  IF p = "streaming"
    THEN {"ok", "Timeout", "AlignError", "NoDepth", "NoColor"}
    ELSE {"NotStreaming"}

\* get_aligned_frames without the test for a missing depth frame.
get_aligned_frames_NoDepthTest(outcome) ==
  IF outcome \in {"Timeout", "AlignError", "NotStreaming", "NoColor"}
    THEN <<None, None>>
    ELSE IF outcome = "NoDepth" THEN <<"img", None>> ELSE <<"img", "frame">>

\* get_aligned_frames: the pair it returns for an outcome.
get_aligned_frames(outcome) ==
  IF outcome \in {"Timeout", "AlignError", "NotStreaming"}
    THEN <<None, None>>                      \* except Exception
    ELSE IF outcome \in {"NoDepth", "NoColor"}
      THEN <<None, None>>                    \* if not depth_frame or not color_frame
      ELSE <<"img", "frame">>

\* start(), first statement: self.pipeline.start(self.config) in the try block.
StartOpen ==
  /\ pc = "start"
  /\ UNCHANGED dcVars
  /\ \E ok \in BOOLEAN :
       LET r == PipelineStart(pipe, ok) IN
       /\ pipe' = r.pipe
       /\ IF r.raised
            THEN /\ startResult' = "False"   \* except Exception: return False
                 /\ pc' = "start_ret"
                 /\ UNCHANGED <<opens, warm>>
            ELSE /\ opens' = opens + 1
                 /\ warm' = 0
                 /\ pc' = "warmup"
                 /\ UNCHANGED startResult
  /\ UNCHANGED <<stops, releases, cycleVars, pending, saved, exc, calls>>

\* start(), one iteration of the warm-up loop: wait_for_frames() returns a
\* frame that is discarded, or raises and start() returns False.
WarmUpFrame ==
  /\ pc = "warmup"
  /\ UNCHANGED dcVars
  /\ warm < WarmUpFrames
  /\ \/ /\ warm' = warm + 1
        /\ UNCHANGED <<pc, startResult>>
     \/ /\ startResult' = "False"
        /\ pc' = "start_ret"
        /\ UNCHANGED warm
  /\ UNCHANGED <<pipe, opens, stops, releases, cycleVars, pending, saved, exc, calls>>

\* start() with a warm-up loop that is one frame short.
StartDone_OneShort ==
  /\ pc = "warmup"
  /\ UNCHANGED dcVars
  /\ warm = WarmUpFrames - 1
  /\ startResult' = "True"
  /\ pc' = "start_ret"
  /\ UNCHANGED <<pipe, opens, stops, releases, warm, cycleVars, pending, saved, exc, calls>>

\* start(): the loop is over, return True.
StartDone ==
  /\ pc = "warmup"
  /\ UNCHANGED dcVars
  /\ warm = WarmUpFrames
  /\ startResult' = "True"
  /\ pc' = "start_ret"
  /\ UNCHANGED <<pipe, opens, stops, releases, warm, cycleVars, pending, saved, exc, calls>>

\* stop(): print, then self.pipeline.stop() whatever state the pipeline is in.
\* Gives the camera fields after the call and whether the call raised.
stop(p) == PipelineStop(p)

\* ------------------------------------------------------------------ main
RunningPcs == {"acquire", "check", "detect", "fuse", "waitkey"}

\* The orchestrator state of a position of main(): Running is the while loop,
\* Stopping the finally block, Idle everything before and after.
Orch(p) ==
  IF p \in RunningPcs THEN "Running"
  ELSE IF p = "finally" THEN "Stopping"
  ELSE "Idle"

\* The half rounded up instead of truncated.
IntHalf_RoundUp(n) == (n + 1) \div 2

\* int(n / 2) for an integer n: Python's true division, then truncation
\* toward zero.
IntHalf(n) == IF n >= 0 THEN n \div 2 ELSE -((-n) \div 2)

\* The centre with cx rounded up instead of truncated.
Center_RoundUpX(b) == <<IntHalf_RoundUp(b.x1 + b.x2), IntHalf(b.y1 + b.y2)>>

\* The centre with the parentheses of the sums forgotten: int(x1 + x2 / 2).
Center_NoParens(b) == <<b.x1 + IntHalf(b.x2), b.y1 + IntHalf(b.y2)>>

\* cx, cy = int((x1 + x2) / 2), int((y1 + y2) / 2)
Center(b) == <<IntHalf(b.x1 + b.x2), IntHalf(b.y1 + b.y2)>>

\* f"{distance:.2f}m" for a distance of mm millimetres: the hundredths of a
\* metre it prints. A value exactly halfway between two hundredths goes to
\* either side, depending on its binary representation.
Fmt2(mm) ==
  IF mm % 10 = 5 THEN {mm \div 10, mm \div 10 + 1} ELSE {(mm + 5) \div 10}

\* The guard written as distance >= 0.
DistanceValid_OrZero(distance) == distance >= 0

\* The test that guards the drawing: if distance > 0.
DistanceValid(distance) == distance > 0

\* main(): the model file is missing or YOLO() raises, and main returns;
\* or the model loads and the snapshot folder is made.
LoadModel ==
  /\ pc = "load"
  /\ UNCHANGED dcVars
  /\ \/ pc' = "done"
     \/ pc' = "start"
  /\ UNCHANGED <<camVars, cycleVars, pending, saved, exc, calls>>

\* main() not looking at what start() returned.
StartFailed_Ignored(result) == FALSE

\* if not cam.start(): return -- else go on to the try block and the loop.
StartFailed(result) == result # "True"

AfterStart ==
  /\ pc = "start_ret"
  /\ UNCHANGED dcVars
  /\ pc' = IF StartFailed(startResult) THEN "done" ELSE "acquire"
  /\ UNCHANGED <<camVars, cycleVars, pending, saved, exc, calls>>

\* color_image, depth_frame = cam.get_aligned_frames().  The locals of the
\* previous cycle are dead here and are cleared.
Acquire ==
  /\ pc = "acquire"
  /\ UNCHANGED dcVars
  /\ \E o \in AcqOutcomes(pipe) :
       /\ acq' = o
       /\ color_image' = get_aligned_frames(o)[1]
       /\ depth_frame' = get_aligned_frames(o)[2]
  /\ depth' = <<>>
  /\ results' = <<>>
  /\ i' = 0
  /\ drawn' = <<>>
  /\ shown' = <<>>
  /\ saved' = FALSE
  /\ pc' = "check"
  /\ UNCHANGED <<camVars, pending, exc, misses, calls>>

\* if color_image is None: continue
FrameMissing(img) == img = None

CheckFrame ==
  /\ pc = "check"
  /\ UNCHANGED dcVars
  /\ IF FrameMissing(color_image)
       THEN /\ pc' = "acquire"
            /\ misses' = IF misses < MaxMisses THEN misses + 1 ELSE misses
       ELSE /\ pc' = "detect"
            /\ misses' = 0
  /\ UNCHANGED <<camVars, acq, color_image, depth_frame, depth, results, i, drawn,
                 shown, pending, saved, exc, calls>>

\* results = model(color_image, conf=CONFIDENCE_THRESHOLD, verbose=False):
\* the detector returns its boxes, or raises; nothing in the loop catches, so
\* the exception goes to the finally block.
Detect ==
  /\ pc = "detect"
  /\ UNCHANGED dcVars
  /\ \/ /\ \E r \in BoxSeqs : results' = r
        /\ i' = 1
        /\ pc' = "fuse"
        /\ UNCHANGED exc
     \/ /\ exc' = "DetectorError"
        /\ pc' = "finally"
        /\ UNCHANGED <<results, i>>
  /\ UNCHANGED <<camVars, acq, color_image, depth_frame, depth, drawn, shown,
                 pending, saved, misses, calls>>

\* One iteration of "for box in results[0].boxes": the centre, the depth
\* sample there, and the drawing if the sample is valid. get_distance raises
\* for a pixel outside the frame.
Fuse ==
  /\ pc = "fuse"
  /\ UNCHANGED dcVars
  /\ i <= Len(results)
  /\ LET box == results[i]
         c == Center(box)
     IN IF c \notin Pixels \/ depth_frame = None
          THEN /\ exc' = "FuserError"
               /\ pc' = "finally"
               /\ UNCHANGED <<depth, drawn, i>>
          ELSE \E distance \in (IF c \in DOMAIN depth THEN {depth[c]} ELSE DepthSamples) :
                 /\ depth' = (c :> distance) @@ depth
                 /\ IF DistanceValid(distance)
                      THEN \E text \in Fmt2(distance) :
                             drawn' = Append(drawn,
                                        [box |-> box, center |-> c,
                                         distance |-> distance,
                                         distance_text |-> text])
                      ELSE drawn' = drawn
                 /\ i' = i + 1
                 /\ UNCHANGED <<pc, exc>>
  /\ UNCHANGED <<camVars, acq, color_image, depth_frame, results, shown, pending,
                 saved, misses, calls>>

\* cv2.imshow(..., color_image): the image with what was drawn on it.
Show ==
  /\ pc = "fuse"
  /\ UNCHANGED dcVars
  /\ i > Len(results)
  /\ shown' = <<[dets |-> results, anns |-> drawn]>>
  /\ pc' = "waitkey"
  /\ UNCHANGED <<camVars, acq, color_image, depth_frame, depth, results, i, drawn,
                 pending, saved, exc, misses, calls>>

\* key = cv2.waitKey(1) & 0xFF takes the pending key, if any:
\* 'q' breaks out of the loop, 's' writes a snapshot, otherwise next cycle.
WaitKey ==
  /\ pc = "waitkey"
  /\ UNCHANGED dcVars
  /\ pending' = None
  /\ pc' = IF pending = "q" THEN "finally" ELSE "acquire"
  /\ saved' = IF pending = "s" THEN TRUE ELSE saved
  /\ UNCHANGED <<camVars, cycleVars, exc, calls>>

\* The user presses a key while the window is up; it waits for waitKey.
PressKey ==
  /\ Orch(pc) = "Running"
  /\ UNCHANGED dcVars
  /\ pending = None
  /\ \E k \in Keys : pending' = k
  /\ UNCHANGED <<pc, camVars, cycleVars, saved, exc, calls>>

\* finally: cam.stop(); cv2.destroyAllWindows(); print. An exception of the
\* loop then leaves main.
Finally ==
  /\ pc = "finally"
  /\ UNCHANGED dcVars
  /\ LET r == stop(pipe) IN
       /\ pipe' = r.pipe
       /\ stops' = stops + 1
       /\ releases' = IF r.released THEN releases + 1 ELSE releases
       /\ exc' = IF r.raised THEN "StopError" ELSE exc
  /\ pc' = "done"
  /\ UNCHANGED <<opens, warm, startResult, cycleVars, pending, saved, calls>>

Init ==
  /\ pipeline = None
  /\ window = FALSE
  /\ img_counter = 0
  /\ pc = "load"
  /\ pipe = "idle"
  /\ opens = 0
  /\ stops = 0
  /\ releases = 0
  /\ warm = 0
  /\ startResult = None
  /\ acq = None
  /\ color_image = None
  /\ depth_frame = None
  /\ depth = <<>>
  /\ results = <<>>
  /\ i = 0
  /\ drawn = <<>>
  /\ shown = <<>>
  /\ pending = None
  /\ saved = FALSE
  /\ exc = None
  /\ misses = 0
  /\ calls = 0

Next ==
  \/ LoadModel
  \/ StartOpen
  \/ WarmUpFrame
  \/ StartDone
  \/ AfterStart
  \/ Acquire
  \/ CheckFrame
  \/ Detect
  \/ Fuse
  \/ Show
  \/ WaitKey
  \/ PressKey
  \/ Finally

Spec == Init /\ [][Next]_vars

\* ------------------------------------------- a client of RealsenseCamera
\* The client calls cam.start(); the body of start() is StartOpen,
\* WarmUpFrame and StartDone above.
ApiStart ==
  /\ pc = "api"
  /\ UNCHANGED dcVars
  /\ calls < MaxApiCalls
  /\ calls' = calls + 1
  /\ pc' = "start"
  /\ UNCHANGED <<camVars, cycleVars, pending, saved, exc>>

\* start() returns to the client.
ApiStartReturn ==
  /\ pc = "start_ret"
  /\ UNCHANGED dcVars
  /\ pc' = "api"
  /\ UNCHANGED <<camVars, cycleVars, pending, saved, exc, calls>>

\* The client calls cam.get_aligned_frames().
ApiGetFrames ==
  /\ pc = "api"
  /\ UNCHANGED dcVars
  /\ calls < MaxApiCalls
  /\ calls' = calls + 1
  /\ \E o \in AcqOutcomes(pipe) :
       /\ acq' = o
       /\ color_image' = get_aligned_frames(o)[1]
       /\ depth_frame' = get_aligned_frames(o)[2]
  /\ UNCHANGED <<pc, camVars, depth, results, i, drawn, shown, pending, saved, exc,
                 misses>>

\* The client calls cam.stop(); an exception of pipeline.stop() reaches it.
ApiStop ==
  /\ pc = "api"
  /\ UNCHANGED dcVars
  /\ calls < MaxApiCalls
  /\ calls' = calls + 1
  /\ LET r == stop(pipe) IN
       /\ pipe' = r.pipe
       /\ stops' = stops + 1
       /\ releases' = IF r.released THEN releases + 1 ELSE releases
       /\ exc' = IF r.raised THEN "StopError" ELSE exc
  /\ UNCHANGED <<pc, opens, warm, startResult, cycleVars, pending, saved>>

InitApi ==
  /\ pipeline = None
  /\ window = FALSE
  /\ img_counter = 0
  /\ pc = "api"
  /\ pipe = "idle"
  /\ opens = 0
  /\ stops = 0
  /\ releases = 0
  /\ warm = 0
  /\ startResult = None
  /\ acq = None
  /\ color_image = None
  /\ depth_frame = None
  /\ depth = <<>>
  /\ results = <<>>
  /\ i = 0
  /\ drawn = <<>>
  /\ shown = <<>>
  /\ pending = None
  /\ saved = FALSE
  /\ exc = None
  /\ misses = 0
  /\ calls = 0

NextApi ==
  \/ ApiStart
  \/ StartOpen
  \/ WarmUpFrame
  \/ StartDone
  \/ ApiStartReturn
  \/ ApiGetFrames
  \/ ApiStop

SpecApi == InitApi /\ [][NextApi]_vars

\* ------------------------------------------------- 1_data_collection.py
DcLoopPcs == {"dc_while", "dc_wait", "dc_key"}

mainVars == <<warm, startResult, depth_frame, depth, results, i, drawn, shown,
              saved, misses, calls>>

\* try: pipeline = rs.pipeline(); config = rs.config(); enable_stream(...).
\* rs.pipeline() may raise (pipeline stays None) and so may enable_stream
\* (pipeline is set); both go to the except block, which prints, and on to
\* finally.
DcCreatePipeline ==
  /\ pc = "dc_try"
  /\ \/ /\ pipeline' = "pipeline"
        /\ pc' = "dc_start"
     \/ /\ pipeline' \in {None, "pipeline"}
        /\ pc' = "dc_finally"
  /\ UNCHANGED <<mainVars, pipe, opens, stops, releases, acq, color_image,
                 pending, exc, window, img_counter>>

\* pipeline.start(config): on success the loop is entered, an exception goes
\* through the except block to finally.
DcStart ==
  /\ pc = "dc_start"
  /\ \E ok \in BOOLEAN :
       LET r == PipelineStart(pipe, ok) IN
       /\ pipe' = r.pipe
       /\ opens' = IF r.raised THEN opens ELSE opens + 1
       /\ pc' = IF r.raised THEN "dc_finally" ELSE "dc_while"
  /\ UNCHANGED <<mainVars, stops, releases, acq, color_image, pending, exc, dcVars>>

\* while cv2.getWindowProperty(WINDOW_NAME, cv2.WND_PROP_VISIBLE) >= 1
DcWhile ==
  /\ pc = "dc_while"
  /\ pc' = IF window THEN "dc_wait" ELSE "dc_finally"
  /\ UNCHANGED <<mainVars, pipe, opens, stops, releases, acq, color_image,
                 pending, exc, dcVars>>

\* frames = pipeline.wait_for_frames(timeout_ms=5000) and the three tests
\* that follow: a timeout raises (except block, finally); a frameset without
\* a usable color image continues the loop; otherwise the image is shown.
DcWaitFrames ==
  /\ pc = "dc_wait"
  /\ \E o \in {"ok", "Timeout", "NoColor"} :
       /\ acq' = o
       /\ color_image' = IF o = "ok" THEN "img" ELSE None
       /\ pc' = IF o = "ok" THEN "dc_key"
                ELSE IF o = "Timeout" THEN "dc_finally" ELSE "dc_while"
       /\ window' = IF o = "ok" THEN TRUE ELSE window     \* cv2.imshow
  /\ UNCHANGED <<mainVars, pipe, opens, stops, releases, pending, exc, pipeline,
                 img_counter>>

\* key = cv2.waitKey(1) & 0xFF: 'q' breaks, 's' saves the image and counts it.
DcWaitKey ==
  /\ pc = "dc_key"
  /\ pending' = None
  /\ pc' = IF pending = "q" THEN "dc_finally" ELSE "dc_while"
  /\ img_counter' = IF pending = "s" THEN img_counter + 1 ELSE img_counter
  /\ UNCHANGED <<mainVars, pipe, opens, stops, releases, acq, color_image, exc,
                 pipeline, window>>

\* The user presses a key, or closes the window, while the loop runs.
DcPressKey ==
  /\ pc \in DcLoopPcs
  /\ pending = None
  /\ \E k \in Keys :
       /\ (k = "s") => img_counter < MaxImages
       /\ pending' = k
  /\ UNCHANGED <<mainVars, pc, pipe, opens, stops, releases, acq, color_image, exc,
                 dcVars>>

DcCloseWindow ==
  /\ pc \in DcLoopPcs
  /\ window
  /\ window' = FALSE
  /\ UNCHANGED <<mainVars, pc, pipe, opens, stops, releases, acq, color_image,
                 pending, exc, pipeline, img_counter>>

\* "if pipeline:" -- an rs.pipeline object is true whether started or not.
PipelineTruthy(pl) == pl # None

\* finally: if pipeline: pipeline.stop(); cv2.destroyAllWindows(); print.
DcFinally ==
  /\ pc = "dc_finally"
  /\ IF PipelineTruthy(pipeline)
       THEN LET r == PipelineStop(pipe) IN
            /\ pipe' = r.pipe
            /\ stops' = stops + 1
            /\ releases' = IF r.released THEN releases + 1 ELSE releases
            /\ exc' = IF r.raised THEN "StopError" ELSE exc
       ELSE UNCHANGED <<pipe, stops, releases, exc>>
  /\ pc' = "dc_done"
  /\ UNCHANGED <<mainVars, opens, acq, color_image, pending, dcVars>>

\* main() up to the try block: the folder and the window are made,
\* pipeline = None.
InitCollect ==
  /\ pc = "dc_try"
  /\ pipeline = None
  /\ window = TRUE
  /\ img_counter = 0
  /\ pipe = "idle"
  /\ opens = 0
  /\ stops = 0
  /\ releases = 0
  /\ warm = 0
  /\ startResult = None
  /\ acq = None
  /\ color_image = None
  /\ depth_frame = None
  /\ depth = <<>>
  /\ results = <<>>
  /\ i = 0
  /\ drawn = <<>>
  /\ shown = <<>>
  /\ pending = None
  /\ saved = FALSE
  /\ exc = None
  /\ misses = 0
  /\ calls = 0

NextCollect ==
  \/ DcCreatePipeline
  \/ DcStart
  \/ DcWhile
  \/ DcWaitFrames
  \/ DcWaitKey
  \/ DcPressKey
  \/ DcCloseWindow
  \/ DcFinally

SpecCollect == InitCollect /\ [][NextCollect]_vars

\* ================================================================ claims

\* The boxes of this cycle the for loop has been through, and those of them
\* whose centre has a valid depth sample.
Processed == SubSeq(results, 1, i - 1)
ValidDepth(b) == depth[Center(b)] > 0
ProcessedValid == SelectSeq(Processed, ValidDepth)

\* C1: on every exit path of a run on which the pipeline was opened
\* (pipeline.start succeeded), pipeline stop has been executed exactly once
\* when the program ends, also when a warm-up wait raised inside start().
C1_ReleasedOnEveryExit ==
  (pc = "done" /\ opens > 0) => (stops = 1 /\ releases = 1)

\* C2: a detector or fuser step never takes the orchestrator out of Running
\* and never lets an exception leave the loop: the next position is still in
\* the loop.
C2_DetectorErrorKeepsRunning ==
  [][(pc \in {"detect", "fuse"}) => (Orch(pc') = "Running" /\ exc' = None)]_vars

\* C3: once start() has been called, stop() never raises, however often it is
\* called, and the pipeline is stopped at most once per successful open (not
\* a second time on a second stop(), not at all after a start() that never
\* opened the device).
C3_StopIdempotentTotal ==
  (startResult # None) => (exc = None /\ stops <= opens)

\* C4: after an acquisition that failed (timeout, alignment error, a stream
\* without a frame) and until the next acquisition, the cycle is skipped:
\* the run is at the frame test or back at the acquisition, the detector was
\* not invoked, nothing was drawn or shown, no exception is under way and
\* the camera was not stopped; and the detector, the fuser and the sink only
\* ever work on a cycle whose acquisition succeeded.
C4_AcquisitionFailureSkipsCycle ==
  /\ (acq \notin {None, "ok"}) =>
        /\ pc \in {"check", "acquire"}
        /\ results = <<>> /\ drawn = <<>> /\ shown = <<>> /\ ~saved
        /\ exc = None /\ stops = 0
  /\ (pc \in {"detect", "fuse", "waitkey"}) => acq = "ok"
  /\ (misses > 0) => Orch(pc) = "Running"

\* C4 witness: two cycles in a row were skipped and the run is about to
\* acquire again.
C4_Witness ==
  pc = "acquire" /\ misses = 2 /\ acq = "Timeout"

\* C5: no cycle of the loop ends by going back to the acquisition while a
\* stop request ('q') is pending: every cycle polls the keyboard.
C5_CancelPolledEveryCycle ==
  [][~(pending = "q" /\ Orch(pc) = "Running" /\ pc # "acquire" /\ pc' = "acquire")]_vars

\* C6 as stated: a distance is reported exactly for the detections whose
\* centre sample is > 0, the fused distance is that sample, and no reported
\* distance (the text drawn on the image) is <= 0.
C6_NoReportedDistanceNonPositive ==
  /\ Len(drawn) = Len(ProcessedValid)
  /\ \A k \in 1..Len(drawn) :
       /\ drawn[k].box = ProcessedValid[k]
       /\ drawn[k].distance = depth[Center(drawn[k].box)]
       /\ drawn[k].distance > 0
       /\ drawn[k].distance_text > 0

\* C6 amended: a distance is reported exactly for the detections whose centre
\* sample is > 0 (none for a sample <= 0), the fused distance is that sample
\* and is > 0; the text drawn is the sample rounded to hundredths of a metre,
\* which reads 0.00m only for a positive sample of at most 5 mm.
C6_FusedDistanceValid ==
  /\ Len(drawn) = Len(ProcessedValid)
  /\ \A k \in 1..Len(drawn) :
       /\ drawn[k].box = ProcessedValid[k]
       /\ drawn[k].distance = depth[Center(drawn[k].box)]
       /\ drawn[k].distance > 0
       /\ drawn[k].distance_text >= 0
       /\ 10 * drawn[k].distance_text - drawn[k].distance \in -5..5
       /\ (drawn[k].distance_text = 0) => (drawn[k].distance <= 5)

\* C6 witness: a cycle was shown in which one detection had an invalid
\* sample and got no distance and another had a valid one and got it.
C6_Witness ==
  /\ pc = "waitkey"
  /\ Len(results) = 2
  /\ Len(drawn) = 1
  /\ drawn[1].distance = 1250 /\ drawn[1].distance_text = 125
  /\ \E k \in 1..2 : depth[Center(results[k])] = 0

\* C7: what reaches the sink holds one entry per detection of the cycle, in
\* the detector's order, each with its box.
C7_OneFusedPerDetection ==
  \A s \in 1..Len(shown) :
    /\ Len(shown[s].anns) = Len(shown[s].dets)
    /\ \A k \in 1..Len(shown[s].anns) : shown[s].anns[k].box = shown[s].dets[k]

\* C8: once start() has reported failure the run is never in the loop or
\* the finally block, and no acquisition, detection, fusion or emit has
\* happened.
C8_FailedStartStaysIdle ==
  (startResult = "False") =>
     /\ pc \in {"start_ret", "done"}
     /\ Orch(pc) = "Idle"
     /\ acq = None /\ color_image = None /\ depth_frame = None
     /\ results = <<>> /\ drawn = <<>> /\ shown = <<>> /\ ~saved
     /\ stops = 0 /\ exc = None

\* C8 witness: the run ended after a start() that failed.
C8_Witness ==
  pc = "done" /\ startResult = "False"

\* C9: start() retrieves at most 30 warm-up frames and reports success only
\* with all 30 retrieved; the loop, and so every result of
\* get_aligned_frames, comes after the complete warm-up.
C9_WarmUpPrecedesUse ==
  /\ warm <= WarmUpFrames
  /\ (startResult = "True") => warm = WarmUpFrames
  /\ (acq # None) => (warm = WarmUpFrames /\ startResult = "True")
  /\ (Orch(pc) # "Idle") => (warm = WarmUpFrames /\ startResult = "True")

\* C9 witness: a frame pair was handed to main after the warm-up.
C9_Witness ==
  pc = "check" /\ acq = "ok" /\ color_image # None /\ warm = WarmUpFrames

\* C10: every step of the orchestrator keeps its state or takes Idle ->
\* Running after a successful start, Running -> Stopping on cancellation or
\* on an error of the frame source, or Stopping -> Idle with stop() called.
C10_OrchTransitions ==
  [][\/ Orch(pc') = Orch(pc)
     \/ /\ Orch(pc) = "Idle" /\ Orch(pc') = "Running"
        /\ startResult = "True"
     \/ /\ Orch(pc) = "Running" /\ Orch(pc') = "Stopping"
        /\ \/ (pc = "waitkey" /\ pending = "q")
           \/ pc \in {"acquire", "check"}
     \/ /\ Orch(pc) = "Stopping" /\ Orch(pc') = "Idle"
        /\ stops' = stops + 1]_vars

\* C11: one frame pair is in flight at a time and every successfully
\* acquired pair goes through detect, then fuse, then emit, exactly once and
\* before the next acquisition starts or the run ends: nothing is shown
\* before the detector and the fuser are through, what is shown is this
\* frame's detections with all of them fused, and a cycle whose acquisition
\* succeeded never ends with its frame shown zero times or twice.
C11_InOrderOnceEach ==
  /\ Len(shown) <= 1
  /\ (pc \in {"check", "detect", "fuse"}) => shown = <<>>
  /\ (shown # <<>>) =>
        /\ acq = "ok" /\ color_image # None
        /\ i = Len(results) + 1
        /\ shown[1].dets = results /\ shown[1].anns = drawn
  /\ (acq = "ok" /\ pc \in {"waitkey", "acquire", "finally", "done"}) => Len(shown) = 1

\* floor(n / 2), from the definition of the floor: the integer q with
\* 2q <= n < 2q + 2.
FloorHalf(n) ==
  CHOOSE q \in -(IMG_WIDTH + IMG_HEIGHT)..(IMG_WIDTH + IMG_HEIGHT) :
    2 * q <= n /\ n < 2 * q + 2

FloorCenter(b) == <<FloorHalf(b.x1 + b.x2), FloorHalf(b.y1 + b.y2)>>

\* C12: for every box of the detector the representative point is
\* (floor((x1+x2)/2), floor((y1+y2)/2)) and depends on the box alone: the
\* pixels sampled in a cycle are exactly the floor centres of the boxes gone
\* through, and every annotation carries the floor centre of its box.
C12_CenterIsFloor ==
  /\ DOMAIN depth = {FloorCenter(Processed[k]) : k \in 1..Len(Processed)}
  /\ \A k \in 1..Len(drawn) : drawn[k].center = FloorCenter(drawn[k].box)

\* C12 witness: a box with an odd x1 + x2 was drawn, its centre rounded down
\* to x1.
C12_Witness ==
  /\ Len(drawn) > 0
  /\ (drawn[1].box.x1 + drawn[1].box.x2) % 2 = 1
  /\ drawn[1].center[1] = drawn[1].box.x1

\* C13: for every detection (0 <= x1 < x2 <= width, 0 <= y1 < y2 <= height)
\* the centre lies in the box, x1 <= cx < x2 and y1 <= cy < y2, so every
\* depth sample is taken at a pixel of the frame and get_distance never
\* raises for a pixel out of range.
C13_CenterInsideBox ==
  /\ exc # "FuserError"
  /\ DOMAIN depth \subseteq Pixels
  /\ \A k \in 1..Len(Processed) :
       LET b == Processed[k]
           c == Center(b)
       IN /\ c \in DOMAIN depth
          /\ b.x1 <= c[1] /\ c[1] < b.x2
          /\ b.y1 <= c[2] /\ c[2] < b.y2
          /\ 0 <= c[1] /\ c[1] < IMG_WIDTH
          /\ 0 <= c[2] /\ c[2] < IMG_HEIGHT

\* C13 witness: a box that touches the right and the bottom edge of the
\* frame was sampled.
C13_Witness ==
  \E k \in 1..Len(Processed) :
    /\ Processed[k].x2 = IMG_WIDTH /\ Processed[k].y2 = IMG_HEIGHT
    /\ Processed[k].x1 = IMG_WIDTH - 1
    /\ Center(Processed[k]) \in DOMAIN depth

\* C14: get_aligned_frames hands over both frames or (None, None), never one
\* without the other; past the test of color_image the depth frame is there,
\* and it is there whenever a sample has been read from it.
C14_PairCompleteOrNone ==
  /\ (color_image = None) <=> (depth_frame = None)
  /\ (acq \in {"NoDepth", "NoColor"}) => (color_image = None /\ depth_frame = None)
  /\ (pc \in {"detect", "fuse", "waitkey"}) => (color_image # None /\ depth_frame # None)
  /\ (DOMAIN depth # {}) => depth_frame # None

\* C14 witness: the frameset lacked the depth frame and main got (None, None).
C14_Witness ==
  pc = "check" /\ acq = "NoDepth" /\ color_image = None /\ depth_frame = None

\* C15: in a script that owns a camera pipeline, pipeline stop is invoked at
\* most once and only on a pipeline whose start succeeded before (so it
\* releases the device and does not raise), and once the pipeline is
\* stopped the script is past its loop and requests no more frames.
C15_DeviceLifecycle ==
  /\ stops <= 1
  /\ stops <= opens
  /\ releases = stops
  /\ exc # "StopError"
  /\ (pipe = "stopped") => pc \in {"done", "dc_done"}

====
